---- MODULE Spec2Model ----
(***************************************************************************)
(* Calculator (src/Calculator/Calculator.py): the entry line, the          *)
(* expression label, the result flag and the operator buttons, driven by   *)
(* button clicks.  Texts are sequences of one-character strings, so that   *)
(* slicing, split(), startswith() and the "in" test are computed as the    *)
(* code computes them.                                                     *)
(***************************************************************************)
EXTENDS Integers, Sequences, FiniteSets, TLC

VARIABLES lineEdit, label, is_result_shown, disabled, exc, pre, last, script, pc

\* The currency client (src/CurrencyConverter/CurrencyConverter.py): whether
\* CURRENCY_API_KEY is set, the state of main(), the state before the last
\* command and that command with the reply its request got.
VARIABLES api_key, client, client_pre, command

clientvars == <<api_key, client, client_pre, command>>

\* Rock-Paper-Scissors (src/RPS/RPS.py): the state of main() and of the
\* get_user_choice calls it is waiting in, that state before the last line
\* was typed, and the line typed.
VARIABLES game, game_pre, typed

gamevars == <<game, game_pre, typed>>

vars == <<lineEdit, label, is_result_shown, disabled, exc, pre, last, script, pc,
          clientvars, gamevars>>

(* ------------------------------ bounds -------------------------------- *)

\* longest entry text (error texts apart) the model follows
MaxEntryLen == 4
\* largest operand of a scripted key sequence
MaxOperand == 12
\* fractional digits kept of a float whose decimal expansion does not end
FloatDigits == 6
\* commands entered in one session of the currency client
MaxCommands == 3
\* rounds played in one game of Rock-Paper-Scissors
MaxRounds == 1

(* ------------------------------- texts -------------------------------- *)

DigitChars == <<"0", "1", "2", "3", "4", "5", "6", "7", "8", "9">>

ERROR_ZERO_DIV ==
    <<"D","i","v","i","s","i","o","n"," ","b","y"," ","z","e","r","o">>

ERROR_UNDEFINED ==
    <<"R","e","s","u","l","t"," ","i","s"," ",
      "u","n","d","e","f","i","n","e","d">>

Signs == {"+", "-", "*", "/"}

IsDigit(c) == \E i \in 1..10 : DigitChars[i] = c

DigitVal(c) == (CHOOSE i \in 1..10 : DigitChars[i] = c) - 1

AllDigits(t) == \A i \in 1..Len(t) : IsDigit(t[i])

Contains(t, c) == \E i \in 1..Len(t) : t[i] = c

startswith(t, c) == Len(t) > 0 /\ t[1] = c

endswith(t, suffix) ==
    /\ Len(t) >= Len(suffix)
    /\ SubSeq(t, Len(t) - Len(suffix) + 1, Len(t)) = suffix

\* t[:-n]
DropLast(t, n) == SubSeq(t, 1, Len(t) - n)

\* str.split(): the maximal runs of non-blank characters
RECURSIVE split(_)
split(t) ==
    IF t = <<>> THEN <<>>
    ELSE IF t[1] = " " THEN split(Tail(t))
    ELSE LET stop == IF Contains(t, " ")
                     THEN (CHOOSE i \in 1..Len(t) :
                              t[i] = " " /\ \A j \in 1..(i - 1) : t[j] # " ")
                     ELSE Len(t) + 1
         IN  <<SubSeq(t, 1, stop - 1)>> \o split(SubSeq(t, stop, Len(t)))

RECURSIVE NatStr(_)
NatStr(n) ==
    IF n < 10 THEN <<DigitChars[n + 1]>>
    ELSE NatStr(n \div 10) \o <<DigitChars[(n % 10) + 1]>>

RECURSIVE NatVal(_)
NatVal(t) ==
    IF t = <<>> THEN 0
    ELSE 10 * NatVal(DropLast(t, 1)) + DigitVal(t[Len(t)])

RECURSIVE Pow10(_)
Pow10(k) == IF k = 0 THEN 1 ELSE 10 * Pow10(k - 1)

(* ------------------------------ numbers ------------------------------- *)

\* A Python number: an int (float = FALSE, den = 1) or a float, of value
\* (-1)^neg * num / den.  A float keeps the sign of a zero.
PyInt(neg, n) == [float |-> FALSE, neg |-> neg /\ n > 0, num |-> n, den |-> 1]

PyFloat(neg, n, d) == [float |-> TRUE, neg |-> neg, num |-> n, den |-> d]

Signed(x) == IF x.neg THEN 0 - x.num ELSE x.num

Abs(i) == IF i < 0 THEN 0 - i ELSE i

Unsigned(t) == IF startswith(t, "-") \/ startswith(t, "+") THEN Tail(t) ELSE t

\* int(text): ok = FALSE stands for ValueError
int(t) ==
    LET body == Unsigned(t)
    IN  IF body # <<>> /\ AllDigits(body)
        THEN [ok |-> TRUE, v |-> PyInt(startswith(t, "-"), NatVal(body))]
        ELSE [ok |-> FALSE, v |-> PyInt(FALSE, 0)]

\* float(text) of a decimal literal: ok = FALSE stands for ValueError
float(t) ==
    LET body  == Unsigned(t)
        point == IF Contains(body, ".")
                 THEN CHOOSE i \in 1..Len(body) :
                        body[i] = "." /\ \A j \in 1..(i - 1) : body[j] # "."
                 ELSE Len(body) + 1
        ip    == SubSeq(body, 1, point - 1)
        fp    == SubSeq(body, point + 1, Len(body))
    IN  IF AllDigits(ip) /\ AllDigits(fp) /\ Len(ip) + Len(fp) > 0
        THEN [ok |-> TRUE,
              v  |-> PyFloat(startswith(t, "-"), NatVal(ip \o fp), Pow10(Len(fp)))]
        ELSE [ok |-> FALSE, v |-> PyInt(FALSE, 0)]

RECURSIVE FracStr(_, _, _)
FracStr(r, d, k) ==
    IF r = 0 \/ k = 0 THEN <<>>
    ELSE <<DigitChars[((10 * r) \div d) + 1]>> \o FracStr((10 * r) % d, d, k - 1)

\* str(number)
str(x) ==
    LET sign == IF x.neg THEN <<"-">> ELSE <<>>
        frac == FracStr(x.num % x.den, x.den, FloatDigits)
    IN  IF ~x.float THEN sign \o NatStr(x.num)
        ELSE sign \o NatStr(x.num \div x.den) \o <<".">>
                  \o (IF frac = <<>> THEN <<"0">> ELSE frac)

add(a, b) ==
    LET n == Signed(a) * b.den + Signed(b) * a.den
        d == a.den * b.den
    IN  IF a.float \/ b.float
        THEN PyFloat(IF n = 0 THEN a.neg /\ b.neg ELSE n < 0, Abs(n), d)
        ELSE PyInt(n < 0, Abs(n))

sub(a, b) == add(a, [b EXCEPT !.neg = ~b.neg])

mul(a, b) ==
    IF a.float \/ b.float
    THEN PyFloat(a.neg # b.neg, a.num * b.num, a.den * b.den)
    ELSE PyInt(a.neg # b.neg, a.num * b.num)

\* defined for b # 0; b = 0 is ZeroDivisionError
truediv(a, b) == PyFloat(a.neg # b.neg, a.num * b.den, a.den * b.num)

\* the operations table, keyed by the sign's text
operations(sign, a, b) ==
    CASE sign = <<"+">> -> add(a, b)
      [] sign = <<"-">> -> sub(a, b)
      [] sign = <<"*">> -> mul(a, b)
      [] sign = <<"/">> -> truediv(a, b)

OperationKeys == {<<s>> : s \in Signs}

(* ------------------------- the window's state ------------------------- *)

\* The window as a record: the entry line's text, the label's text, the
\* result flag, whether the operator buttons (+ - * / =) are disabled, and
\* the exception that escaped the handler of the last click ("none" when
\* it ran to completion).
Cur ==
    [lineEdit |-> lineEdit, label |-> label,
     is_result_shown |-> is_result_shown, disabled |-> disabled, exc |-> exc]

Raise(ui, e) == [ui EXCEPT !.exc = e]

Enter(ui) == [ui EXCEPT !.exc = "none"]

(* --------------------------- error handling --------------------------- *)

disable_buttons(ui, disable) == [ui EXCEPT !.disabled = disable]

\* show_error that also empties the label
show_error_clears_label(ui, text) ==
    [ui EXCEPT !.lineEdit = text, !.label = <<>>, !.disabled = TRUE]

\* show_error that forgets to disable the operator buttons
show_error_keeps_buttons(ui, text) == [ui EXCEPT !.lineEdit = text]

show_error(ui, text) == disable_buttons([ui EXCEPT !.lineEdit = text], TRUE)

\* remove_error that resets the entry and leaves the buttons disabled
remove_error_keeps_disabled(ui) ==
    IF ui.lineEdit \in {ERROR_ZERO_DIV, ERROR_UNDEFINED}
    THEN [ui EXCEPT !.lineEdit = <<"0">>]
    ELSE ui

remove_error(ui) ==
    IF ui.lineEdit \in {ERROR_ZERO_DIV, ERROR_UNDEFINED}
    THEN disable_buttons([ui EXCEPT !.lineEdit = <<"0">>], FALSE)
    ELSE ui

\* self.clear_temp(): the class defines no such method and neither does
\* QMainWindow, so the attribute lookup raises AttributeError at the call.
\* The exception leaves the slot: what the handler did before the call
\* stays, the rest of it does not run, and the event loop goes on.
clear_temp(ui) == Raise(ui, "AttributeError")

(* --------------------------- input handling --------------------------- *)

add_digit_entry(ui, digit) ==
    LET shown   == IF ui.is_result_shown
                   THEN [ui EXCEPT !.lineEdit = <<"0">>, !.is_result_shown = FALSE]
                   ELSE ui
        current == shown.lineEdit
    IN  IF current = <<"0">>
        THEN [shown EXCEPT !.lineEdit = <<digit>>]
        ELSE [shown EXCEPT !.lineEdit = current \o <<digit>>]

add_digit(ui, digit) ==
    LET cleared == clear_temp(remove_error(Enter(ui)))
    IN  IF cleared.exc # "none" THEN cleared
        ELSE add_digit_entry(cleared, digit)

add_point(ui) ==
    LET cleared == clear_temp(Enter(ui))
        shown   == IF cleared.is_result_shown
                   THEN [cleared EXCEPT !.lineEdit = <<"0">>,
                                        !.is_result_shown = FALSE]
                   ELSE cleared
    IN  IF cleared.exc # "none" THEN cleared
        ELSE IF ~Contains(shown.lineEdit, ".")
             THEN [shown EXCEPT !.lineEdit = shown.lineEdit \o <<".">>]
             ELSE shown

\* negate that prepends "-" to any unsigned entry, "0" included, before
\* anything else
negate_unguarded(ui) ==
    LET entry   == ui.lineEdit
        toggled == IF startswith(entry, "-") THEN Tail(entry)
                   ELSE <<"-">> \o entry
    IN  clear_temp([Enter(ui) EXCEPT !.lineEdit = toggled])

negate(ui) ==
    LET cleared == clear_temp(Enter(ui))
        entry   == cleared.lineEdit
    IN  IF cleared.exc # "none" THEN cleared
        ELSE IF startswith(entry, "-")
             THEN [cleared EXCEPT !.lineEdit = Tail(entry)]
             ELSE IF entry # <<"0">>
                  THEN [cleared EXCEPT !.lineEdit = <<"-">> \o entry]
                  ELSE cleared

\* backspace that cuts the last character with no length check, before
\* anything else
backspace_empties(ui) ==
    clear_temp([Enter(ui) EXCEPT !.lineEdit = DropLast(ui.lineEdit, 1)])

backspace(ui) ==
    LET cleared == clear_temp(remove_error(Enter(ui)))
        entry   == cleared.lineEdit
    IN  IF cleared.exc # "none" THEN cleared
        ELSE IF cleared.is_result_shown
             THEN [cleared EXCEPT !.lineEdit = <<"0">>, !.is_result_shown = FALSE]
             ELSE IF Len(entry) > 1
                  THEN [cleared EXCEPT !.lineEdit = DropLast(entry, 1)]
                  ELSE [cleared EXCEPT !.lineEdit = <<"0">>]

\* clear_all that forgets remove_error
clear_all_keeps_error(ui) ==
    [Enter(ui) EXCEPT !.lineEdit = <<"0">>, !.label = <<>>,
                      !.is_result_shown = FALSE]

clear_all(ui) ==
    [remove_error(Enter(ui)) EXCEPT !.lineEdit = <<"0">>, !.label = <<>>,
                                    !.is_result_shown = FALSE]

(* -------------------------- calculation logic ------------------------- *)

\* remove_zeros that keeps the ".0"
remove_zeros_keeps(num) ==
    [ok |-> float(num).ok, s |-> str(float(num).v)]

\* remove_zeros(num): ok = FALSE stands for the ValueError of float(num)
remove_zeros(num) ==
    LET f == float(num)
        n == str(f.v)
    IN  IF ~f.ok THEN [ok |-> FALSE, s |-> <<>>]
        ELSE [ok |-> TRUE,
              s  |-> IF endswith(n, <<".", "0">>) THEN DropLast(n, 2) ELSE n]

\* float(text) if "." in text else int(text)
number(t) == IF Contains(t, ".") THEN float(t) ELSE int(t)

get_entry(ui) == number(ui.lineEdit)

\* called with a non-empty label; ok = FALSE stands for ValueError
get_temp(ui) == number(split(ui.label)[1])

\* called with a non-empty label
get_mathsign(ui) == split(ui.label)[Len(split(ui.label))]

\* a calculate without its "except KeyError" clause
except_KeyError_missing(ui) == Raise(ui, "KeyError")

\* except KeyError: return None
except_KeyError(ui) == ui

calculate(ui0) ==
    LET ui == Enter(ui0)
    IN  IF ui.label = <<>> THEN ui
        ELSE IF split(ui.label) = <<>> THEN Raise(ui, "IndexError")
        ELSE IF get_mathsign(ui) \notin OperationKeys THEN except_KeyError(ui)
        ELSE IF ~get_temp(ui).ok \/ ~get_entry(ui).ok THEN Raise(ui, "ValueError")
        ELSE IF get_mathsign(ui) = <<"/">> /\ get_entry(ui).v.num = 0
             THEN IF get_temp(ui).v.num = 0
                  THEN show_error(ui, ERROR_UNDEFINED)
                  ELSE show_error(ui, ERROR_ZERO_DIV)
        ELSE LET result == remove_zeros(
                     str(operations(get_mathsign(ui),
                                    get_temp(ui).v, get_entry(ui).v))).s
             IN  [ui EXCEPT
                    !.label = str(get_temp(ui).v) \o <<" ">> \o get_mathsign(ui)
                              \o <<" ">> \o ui.lineEdit \o <<" ", "=">>,
                    !.lineEdit = result,
                    !.is_result_shown = TRUE]

\* the sign appended to the label instead of replacing its last character
append_sign(text, sign) == text \o <<sign>>

\* label.text()[:-1] + sign
replace_sign(text, sign) == DropLast(text, 1) \o <<sign>>

math_operation(ui0, sign) ==
    LET ui == Enter(ui0)
        rz == remove_zeros(ui.lineEdit)
    IN  IF ui.label = <<>>
        THEN IF ~rz.ok THEN Raise(ui, "ValueError")
             ELSE [ui EXCEPT !.label = rz.s \o <<" ", sign>>,
                             !.lineEdit = <<"0">>,
                             !.is_result_shown = FALSE]
        ELSE IF split(ui.label) = <<>> THEN Raise(ui, "IndexError")
        ELSE IF get_mathsign(ui) = <<"=">>
             THEN IF ~rz.ok THEN Raise(ui, "ValueError")
                  ELSE [ui EXCEPT !.label = rz.s \o <<" ", sign>>,
                                  !.is_result_shown = FALSE]
        ELSE [ui EXCEPT !.label = replace_sign(ui.label, sign),
                        !.is_result_shown = FALSE]

(* --------------------------- currency client -------------------------- *)

\* JSON values as resp.json() returns them: None, a number, a str (a
\* sequence of characters), a list, or a dict kept as its sequence of
\* <<key, value>> pairs in order.  A key is a tuple of strings, so that the
\* pair key f"{cur1}_{cur2}" is <<cur1, "_", cur2>>.
JNull == [t |-> "null", v |-> 0]

JNum(n) == [t |-> "num", v |-> n]

JStr(chars) == [t |-> "str", v |-> chars]

JList(items) == [t |-> "list", v |-> items]

JDict(pairs) == [t |-> "dict", v |-> pairs]

\* the truth value of a JSON value ("not data")
Truthy(j) ==
    CASE j.t = "null" -> FALSE
      [] j.t = "num"  -> j.v # 0
      [] OTHER        -> j.v # <<>>

HasKey(d, k) == \E i \in 1..Len(d.v) : d.v[i][1] = k

\* dict.get(k, default)
dict_get(d, k, default) ==
    IF HasKey(d, k)
    THEN d.v[CHOOSE i \in 1..Len(d.v) : d.v[i][1] = k][2]
    ELSE default

\* the currency codes the replies use, in str order
KeyOrder == << <<"EUR">>, <<"USD">> >>

\* items.sort(key=lambda x: x[0])
sort_items(items) ==
    LET present == SelectSeq(KeyOrder,
                             LAMBDA k : \E i \in 1..Len(items) : items[i][1] = k)
    IN  [j \in 1..Len(present) |->
            items[CHOOSE i \in 1..Len(items) : items[i][1] = present[j]]]

\* what a call gives back: the exception it raised ("none": it returned
\* val), the lines it printed and the HTTP requests it issued
Ret(val, out, requests) ==
    [exc |-> "none", val |-> val, out |-> out, requests |-> requests]

Exc(e, out, requests) ==
    [exc |-> e, val |-> JNull, out |-> out, requests |-> requests]

CONFIG_ERROR == "CURRENCY_API_KEY is not set. Export it or put it in your .env."

\* api_get_json that issues the request without looking at the key
api_get_json_no_key_check(key, resp) ==
    IF resp.status = "ok" THEN Ret(resp.body, <<>>, 1)
    ELSE Exc("RequestException", <<>>, 1)

\* resp is the reply the request gets: status "network" (requests.get or
\* raise_for_status raises RequestException), "json_requestexc" or
\* "json_valueerror" (resp.json() raises requests' JSONDecodeError, a
\* RequestException, or a plain ValueError, by the library's version), or
\* "ok" with the parsed body.
api_get_json(key, resp) ==
    IF ~key THEN Exc("RuntimeError", <<>>, 0)
    ELSE IF resp.status \in {"network", "json_requestexc"}
         THEN Exc("RequestException", <<>>, 1)
    ELSE IF resp.status = "json_valueerror" THEN Exc("ValueError", <<>>, 1)
    ELSE Ret(resp.body, <<>>, 1)

\* get_currencies once api_get_json has given r
get_currencies_results(r) ==
    LET data == dict_get(r.val, <<"results">>, JDict(<<>>))
    IN  IF r.exc # "none" THEN r
        ELSE IF r.val.t # "dict" THEN Exc("AttributeError", <<>>, r.requests)
        ELSE IF data.t # "dict" THEN Exc("AttributeError", <<>>, r.requests)
        ELSE Ret(sort_items(data.v), <<>>, r.requests)

get_currencies(key, resp) == get_currencies_results(api_get_json(key, resp))

\* the text of a JSON str, or of the default ""
Text(j) == IF j.t = "str" THEN j.v ELSE <<>>

\* f"{code} - {name} - {symbol}"
CurrencyLine(currency) ==
    <<Text(dict_get(currency, <<"id">>, JStr(<<>>))), " - ",
      Text(dict_get(currency, <<"currencyName">>, JStr(<<>>))), " - ",
      Text(dict_get(currency, <<"currencySymbol">>, JStr(<<>>)))>>

RECURSIVE print_currencies(_)
print_currencies(currencies) ==
    IF currencies = <<>> THEN Ret(JNull, <<>>, 0)
    ELSE IF currencies[1][2].t # "dict" THEN Exc("AttributeError", <<>>, 0)
    ELSE LET rest == print_currencies(Tail(currencies))
         IN  [rest EXCEPT !.out = <<CurrencyLine(currencies[1][2])>> \o @]

\* float(rate) of a JSON value: a number, a str that parses (else
\* ValueError), or a list or dict (TypeError)
float_of_str(parsed) ==
    [exc |-> IF parsed.ok THEN "none" ELSE "ValueError", v |-> parsed.v]

float_of(j) ==
    CASE j.t = "num" -> [exc |-> "none", v |-> PyFloat(j.v < 0, Abs(j.v), 1)]
      [] j.t = "str" -> float_of_str(float(j.v))
      [] OTHER       -> [exc |-> "TypeError", v |-> PyInt(FALSE, 0)]

\* val of a returned rate: a float, or None (ok = FALSE)
NoRate == [ok |-> FALSE, v |-> PyInt(FALSE, 0)]

\* return float(rate), after the rate's line is printed
exchange_rate_float(line, value, requests) ==
    IF value.exc # "none" THEN Exc(value.exc, <<line>>, requests)
    ELSE Ret([ok |-> TRUE, v |-> value.v], <<line>>, requests)

\* exchange_rate once api_get_json has given r
exchange_rate_data(cur1, cur2, r) ==
    LET pair == <<cur1, "_", cur2>>
        data == r.val
        rate == dict_get(data, pair, JNull)
        line == <<cur1, " -> ", cur2, " = ", rate>>
    IN  IF r.exc # "none" THEN r
        ELSE IF ~Truthy(data)
             THEN Ret(NoRate, <<"Invalid currencies or empty response.">>,
                      r.requests)
        ELSE IF data.t # "dict" THEN Exc("AttributeError", <<>>, r.requests)
        ELSE IF rate = JNull
             THEN Ret(NoRate, <<"Invalid currencies or unsupported pair.">>,
                      r.requests)
        ELSE exchange_rate_float(line, float_of(rate), r.requests)

exchange_rate(key, cur1, cur2, resp) ==
    exchange_rate_data(cur1, cur2, api_get_json(key, resp))

\* f"{converted:.4f}" of a float that has at most four fractional digits
Fixed4(x) ==
    LET scaled == (x.num * 10000) \div x.den
        frac   == NatStr(scaled % 10000)
        zeros  == [i \in 1..(4 - Len(frac)) |-> "0"]
    IN  (IF x.neg THEN <<"-">> ELSE <<>>) \o NatStr(scaled \div 10000)
            \o <<".">> \o zeros \o frac

\* print(f"{value} {cur1} is equal to {converted:.4f} {cur2}")
convert_line(value, cur1, converted, cur2) ==
    <<str(value), " ", cur1, " is equal to ", Fixed4(converted), " ", cur2>>

\* convert once exchange_rate has given r, value being float(amount)
convert_rate(cur1, cur2, r, value) ==
    IF r.exc # "none" THEN r
    ELSE IF ~r.val.ok THEN r
    ELSE IF ~value.ok
         THEN Ret(NoRate, r.out \o <<"Invalid amount.">>, r.requests)
    ELSE Ret([ok |-> TRUE, v |-> mul(r.val.v, value.v)],
             r.out \o <<convert_line(value.v, cur1, mul(r.val.v, value.v), cur2)>>,
             r.requests)

convert(key, cur1, cur2, amount, resp) ==
    convert_rate(cur1, cur2, exchange_rate(key, cur1, cur2, resp), float(amount))

\* currencies_cache: None (set = FALSE) or the list get_currencies returned
NoCache == [set |-> FALSE, items |-> <<>>]

Cached(items) == [set |-> TRUE, items |-> items]

\* main() at its prompt: pc is "prompt", "done" (the loop was left) or
\* "crashed" (an exception left main, named by exc); out holds the lines
\* the last command printed, requests counts the HTTP requests issued
ClientStart ==
    [pc |-> "prompt", currencies_cache |-> NoCache, out |-> <<>>,
     exc |-> "none", requests |-> 0, commands |-> 0]

\* the except clauses of main's loop
main_except(st, r) ==
    LET after == [st EXCEPT !.requests = @ + r.requests]
    IN  CASE r.exc = "RequestException" ->
                [after EXCEPT !.out = r.out \o <<"Network/API error">>]
          [] r.exc = "RuntimeError" ->
                [after EXCEPT !.out = r.out \o <<CONFIG_ERROR>>, !.pc = "done"]
          [] r.exc = "ValueError" ->
                [after EXCEPT !.out = r.out \o <<"Failed to parse API response.">>]
          [] OTHER ->
                [after EXCEPT !.out = r.out, !.pc = "crashed", !.exc = r.exc]

\* print_currencies(currencies_cache), the cache filled
main_list_print(filled, printed) ==
    IF printed.exc # "none" THEN main_except(filled, printed)
    ELSE [filled EXCEPT !.out = printed.out]

\* the list branch once the currencies are got: from the cache, or from
\* get_currencies, which may have raised
main_list_got(st, got) ==
    IF got.exc # "none" THEN main_except(st, got)
    ELSE main_list_print([st EXCEPT !.currencies_cache = Cached(got.val),
                                    !.requests = @ + got.requests],
                         print_currencies(got.val))

\* the list branch with the cache never consulted
main_list_always_fetches(st, key, resp) ==
    main_list_got(st, get_currencies(key, resp))

\* command == "list"
main_list(st, key, resp) ==
    main_list_got(st, IF ~st.currencies_cache.set
                      THEN get_currencies(key, resp)
                      ELSE Ret(st.currencies_cache.items, <<>>, 0))

\* the convert and rate branches once the call has given r
main_called(st, r) ==
    IF r.exc # "none" THEN main_except(st, r)
    ELSE [st EXCEPT !.out = r.out, !.requests = @ + r.requests]

\* the body of the loop for the command read
main_branch(st, key, c) ==
    CASE c.cmd = "q"       -> [st EXCEPT !.pc = "done"]
      [] c.cmd = "list"    -> main_list(st, key, c.resp)
      [] c.cmd = "convert" ->
            main_called(st, convert(key, c.cur1, c.cur2, c.amount, c.resp))
      [] c.cmd = "rate"    ->
            main_called(st, exchange_rate(key, c.cur1, c.cur2, c.resp))
      [] OTHER -> [st EXCEPT !.out = <<"Unrecognized command.">>]

\* one turn of main's loop: the command read and handled
main_command(st0, key, c) ==
    main_branch([st0 EXCEPT !.out = <<>>, !.commands = @ + 1], key, c)

(* ------------------------- Rock-Paper-Scissors ------------------------ *)

UpperChars ==
    <<"A","B","C","D","E","F","G","H","I","J","K","L","M",
      "N","O","P","Q","R","S","T","U","V","W","X","Y","Z">>

LowerChars ==
    <<"a","b","c","d","e","f","g","h","i","j","k","l","m",
      "n","o","p","q","r","s","t","u","v","w","x","y","z">>

\* str.lower()
lower(t) ==
    [i \in 1..Len(t) |->
        IF \E k \in 1..26 : UpperChars[k] = t[i]
        THEN LowerChars[CHOOSE k \in 1..26 : UpperChars[k] = t[i]]
        ELSE t[i]]

\* str.strip(): blanks cut from both ends
RECURSIVE strip(_)
strip(t) ==
    IF t = <<>> THEN t
    ELSE IF t[1] = " " THEN strip(Tail(t))
    ELSE IF t[Len(t)] = " " THEN strip(DropLast(t, 1))
    ELSE t

rock == <<"r","o","c","k">>

paper == <<"p","a","p","e","r">>

scissors == <<"s","c","i","s","s","o","r","s">>

OPTIONS == <<rock, paper, scissors>>

\* x in OPTIONS
InOptions(x) == \E i \in 1..Len(OPTIONS) : OPTIONS[i] = x

\* the interpreter's recursion limit, sys.getrecursionlimit(): the frames of
\* the module, of main and of the nested get_user_choice calls, and the
\* input() the innermost of them makes, count against it
RecursionLimit == 1000

\* One input() of get_user_choice, called with `frames` calls of it already
\* open (itself included): "quit" (None is returned through all of them),
\* "move" (the choice is), "again" (the call at line 31 is made and waits at
\* its own input()), or "RecursionError" (that call's input() reaches the
\* recursion limit: under CPython 3.11 after the 996th invalid line in a
\* row).
get_user_choice(frames, raw) ==
    LET user_input == lower(strip(raw))
    IN  IF user_input = <<"q">> THEN [kind |-> "quit", choice |-> <<>>]
        ELSE IF ~InOptions(user_input)
             THEN [kind   |-> IF frames + 4 >= RecursionLimit
                              THEN "RecursionError" ELSE "again",
                   choice |-> <<>>]
        ELSE [kind |-> "move", choice |-> user_input]

wins == {<<rock, scissors>>, <<paper, rock>>, <<scissors, paper>>}

\* determine_winner with one pair of the table turned round
determine_winner_paper_loses(user, computer) ==
    IF user = computer THEN 0
    ELSE IF <<user, computer>> \in
               {<<rock, scissors>>, <<rock, paper>>, <<scissors, paper>>}
         THEN 1 ELSE -1

determine_winner(user, computer) ==
    IF user = computer THEN 0
    ELSE IF <<user, computer>> \in wins THEN 1 ELSE -1

\* main() waiting in get_user_choice: pc is "prompt", "done" (the loop was
\* left) or "crashed" (an exception left main, named by exc); frames counts
\* the get_user_choice calls open; user_choice, computer_choice and result
\* are main's locals (unbound before the first round: <<>> and 0);
\* computer_moves and decided count the calls of get_computer_choice and of
\* determine_winner; out holds the lines printed since the last input
GameStart ==
    [pc |-> "prompt", frames |-> 1, user_score |-> 0, computer_score |-> 0,
     user_choice |-> <<>>, computer_choice |-> <<>>, result |-> 0,
     computer_moves |-> 0, decided |-> 0, exc |-> "none", out |-> <<>>]

ScoreLine(st) ==
    <<"Score: You ">> \o NatStr(st.user_score) \o <<" - Computer ">>
        \o NatStr(st.computer_score)

\* the if / elif / else on result and the score line
main_result(st, result) ==
    LET scored ==
            CASE result = 1 ->
                    [st EXCEPT !.user_score = @ + 1,
                               !.out = @ \o << <<"You won!">> >>]
              [] result = -1 ->
                    [st EXCEPT !.computer_score = @ + 1,
                               !.out = @ \o << <<"You lost!">> >>]
              [] OTHER -> [st EXCEPT !.out = @ \o << <<"It's a tie!">> >>]
    IN  [scored EXCEPT !.result = result, !.decided = @ + 1,
                       !.out = @ \o <<ScoreLine(scored)>>]

\* a round, get_user_choice having returned user_choice and
\* get_computer_choice computer_choice
main_round(st, user_choice, computer_choice) ==
    main_result([st EXCEPT !.user_choice = user_choice,
                           !.computer_choice = computer_choice,
                           !.computer_moves = @ + 1,
                           !.frames = 1,
                           !.out = << <<"Computer picked: ">> \o computer_choice >>],
                determine_winner(user_choice, computer_choice))

\* what main does with the line typed, got being what get_user_choice made
\* of it
main_got(st, got, computer_choice) ==
    CASE got.kind = "quit" ->
            [st EXCEPT !.pc = "done", !.frames = 0,
                       !.out = << <<"Final score:">>,
                                  <<"You won ">> \o NatStr(st.user_score)
                                      \o <<" times.">>,
                                  <<"Computer won ">> \o NatStr(st.computer_score)
                                      \o <<" times.">> >>]
      [] got.kind = "again" ->
            [st EXCEPT !.frames = @ + 1,
                       !.out = << <<"Invalid choice. Try again.">> >>]
      [] got.kind = "RecursionError" ->
            [st EXCEPT !.pc = "crashed", !.exc = "RecursionError", !.frames = 0,
                       !.out = << <<"Invalid choice. Try again.">> >>]
      [] OTHER -> main_round(st, got.choice, computer_choice)

\* one line typed at the prompt, and what random.choice would return
main_input(st, raw, computer_choice) ==
    main_got(st, get_user_choice(st.frames, raw), computer_choice)

(* ------------------------------- clicks ------------------------------- *)

Digits == {DigitChars[i] : i \in 1..10}

Keys == Digits \cup Signs \cup {".", "neg", "back", "clear", "="}

\* what setupUi leaves in the widgets: the entry line shows "0", the label
\* is empty and the buttons are enabled
DesignTexts == [lineEdit |-> <<"0">>, label |-> <<>>, disabled |-> FALSE]

InitUi ==
    [lineEdit |-> DesignTexts.lineEdit, label |-> DesignTexts.label,
     is_result_shown |-> FALSE, disabled |-> DesignTexts.disabled,
     exc |-> "none"]

\* the state after the click's handler, with the click and the state before
\* it kept for reference
Press(new, key) ==
    /\ Len(new.lineEdit) <= MaxEntryLen
          \/ new.lineEdit \in {ERROR_ZERO_DIV, ERROR_UNDEFINED}
    /\ lineEdit' = new.lineEdit
    /\ label' = new.label
    /\ is_result_shown' = new.is_result_shown
    /\ disabled' = new.disabled
    /\ exc' = new.exc
    /\ pre' = Cur
    /\ last' = key
    /\ UNCHANGED <<clientvars, gamevars>>

\* a key sequence to be clicked through: the digits of a, op, the digits of
\* b, "=" and variations of it
Script(form, a, op, b, op2, c, keys) ==
    [form |-> form, a |-> a, op |-> op, b |-> b, op2 |-> op2, c |-> c,
     keys |-> keys]

NoScript == Script("none", 0, "+", 0, "+", 0, <<>>)

Operands == 0..MaxOperand

Scripts ==
    {Script("binary", a, op, b, "+", 0,
            NatStr(a) \o <<op>> \o NatStr(b) \o <<"=">>) :
        a \in Operands, op \in Signs, b \in Operands}
    \cup
    {Script("swap", a, x[1], b, x[2], 0,
            NatStr(a) \o <<x[1], x[2]>> \o NatStr(b) \o <<"=">>) :
        a \in Operands, x \in Signs \X Signs, b \in Operands}
    \cup
    {Script("swaplate", a, x[1], b, x[2], 0,
            NatStr(a) \o <<x[1]>> \o NatStr(b) \o <<x[2], "=">>) :
        a \in Operands, x \in Signs \X Signs, b \in Operands}
    \cup
    {Script("chain", a, x[1], b, x[2], c,
            NatStr(a) \o <<x[1]>> \o NatStr(b) \o <<"=", x[2]>>
                      \o NatStr(c) \o <<"=">>) :
        a \in Operands, x \in Signs \X Signs, b \in Operands, c \in 0..9}
    \cup
    {Script("recover", a, "/", 0, "+", c,
            NatStr(a) \o <<"/", "0", "=">> \o NatStr(c)) :
        a \in Operands, c \in 0..9}

\* a command line with the further inputs it asks for and the reply its
\* request gets, if it issues one
Command(cmd, cur1, cur2, amount, resp) ==
    [cmd |-> cmd, cur1 |-> cur1, cur2 |-> cur2, amount |-> amount, resp |-> resp]

Reply(status, body) == [status |-> status, body |-> body]

\* no line typed yet
NotTyped == <<"none">>

NoCommand == Command("none", "", "", <<>>, Reply("none", JNull))

Init ==
    /\ lineEdit = InitUi.lineEdit
    /\ label = InitUi.label
    /\ is_result_shown = InitUi.is_result_shown
    /\ disabled = InitUi.disabled
    /\ exc = InitUi.exc
    /\ pre = InitUi
    /\ last = "none"
    /\ script = NoScript
    /\ pc = 1
    /\ api_key = FALSE
    /\ client = ClientStart
    /\ client_pre = ClientStart
    /\ command = NoCommand
    /\ game = GameStart
    /\ game_pre = GameStart
    /\ typed = NotTyped

AddDigit == \E d \in Digits : Press(add_digit(Cur, d), d) /\ UNCHANGED <<script, pc>>

AddPoint == Press(add_point(Cur), ".") /\ UNCHANGED <<script, pc>>

Negate == Press(negate(Cur), "neg") /\ UNCHANGED <<script, pc>>

Backspace == Press(backspace(Cur), "back") /\ UNCHANGED <<script, pc>>

ClearAll == Press(clear_all(Cur), "clear") /\ UNCHANGED <<script, pc>>

\* a disabled button emits no click
Calculate == ~disabled /\ Press(calculate(Cur), "=") /\ UNCHANGED <<script, pc>>

MathOperation ==
    /\ ~disabled
    /\ \E sign \in Signs : Press(math_operation(Cur, sign), sign)
    /\ UNCHANGED <<script, pc>>

Next ==
    \/ AddDigit
    \/ AddPoint
    \/ Negate
    \/ Backspace
    \/ ClearAll
    \/ Calculate
    \/ MathOperation

Spec == Init /\ [][Next]_vars

(* --------------------------- scripted clicks -------------------------- *)

\* one click on the button of a key; a disabled button emits no click
Click(ui, key) ==
    CASE key \in Digits -> add_digit(ui, key)
      [] key = "."      -> add_point(ui)
      [] key = "neg"    -> negate(ui)
      [] key = "back"   -> backspace(ui)
      [] key = "clear"  -> clear_all(ui)
      [] key = "="      -> IF ui.disabled THEN Enter(ui) ELSE calculate(ui)
      [] key \in Signs  -> IF ui.disabled THEN Enter(ui)
                           ELSE math_operation(ui, key)

InitScript ==
    /\ lineEdit = InitUi.lineEdit
    /\ label = InitUi.label
    /\ is_result_shown = InitUi.is_result_shown
    /\ disabled = InitUi.disabled
    /\ exc = InitUi.exc
    /\ pre = InitUi
    /\ last = "none"
    /\ script \in Scripts
    /\ pc = 1
    /\ api_key = FALSE
    /\ client = ClientStart
    /\ client_pre = ClientStart
    /\ command = NoCommand
    /\ game = GameStart
    /\ game_pre = GameStart
    /\ typed = NotTyped

PressNext ==
    /\ pc <= Len(script.keys)
    /\ Press(Click(Cur, script.keys[pc]), script.keys[pc])
    /\ pc' = pc + 1
    /\ UNCHANGED script

NextScript == PressNext

SpecScript == InitScript /\ [][NextScript]_vars

\* the script of the given form has been clicked through
Played(form) == script.form = form /\ pc = Len(script.keys) + 1

(* ------------------------------ properties ---------------------------- *)

ErrorTexts == {ERROR_ZERO_DIV, ERROR_UNDEFINED}

\* the label holds "<left> <op>" with no "=" after it
Pending(ui) ==
    /\ ui.label # <<>>
    /\ split(ui.label) # <<>>
    /\ get_mathsign(ui) \in OperationKeys

\* the label holds "<left> <op> <right> ="
Finalized(ui) ==
    /\ ui.label # <<>>
    /\ split(ui.label) # <<>>
    /\ get_mathsign(ui) = <<"=">>

\* the last click was "=" on a pending "/" with a right operand of zero
DivisionFault ==
    /\ last = "="
    /\ ~pre.disabled
    /\ Pending(pre)
    /\ get_mathsign(pre) = <<"/">>
    /\ get_temp(pre).ok /\ get_entry(pre).ok
    /\ get_entry(pre).v.num = 0

\* the last click was "=" on a pending expression and gave a result
Calculated ==
    /\ last = "="
    /\ ~pre.disabled
    /\ Pending(pre)
    /\ get_temp(pre).ok /\ get_entry(pre).ok
    /\ ~(get_mathsign(pre) = <<"/">> /\ get_entry(pre).v.num = 0)

\* the text a result of a op b is shown as
Formatted(a, op, b) == remove_zeros(str(operations(<<op>>, a, b))).s

Faults(op, b) == op = "/" /\ b = 0

\* a text that reads as a negative zero: "-0", "-0.", "-0.0", "-.0" ...
NegativeZero(t) ==
    /\ startswith(t, "-")
    /\ float(Tail(t)).ok
    /\ float(Tail(t)).v.num = 0

\* C1: when a result is shown, a digit click sets the entry to exactly that
\* digit and clears the result flag.
C1_FirstDigitReplacesResult ==
    (last \in Digits /\ pre.is_result_shown)
        => (lineEdit = <<last>> /\ ~is_result_shown)

\* C2: "=" on a pending "/" with a zero right operand never gives a result:
\* the entry shows "Result is undefined" when the left operand is zero and
\* "Division by zero" otherwise, the operator buttons are disabled and the
\* result flag is not set.
C2_DivisionFault ==
    DivisionFault =>
        /\ lineEdit = IF get_temp(pre).v.num = 0 THEN ERROR_UNDEFINED
                      ELSE ERROR_ZERO_DIV
        /\ disabled
        /\ ~is_result_shown
        /\ label = pre.label

C2_Witness == DivisionFault /\ lineEdit = ERROR_UNDEFINED /\ disabled

\* C3: from a state with the operator buttons disabled, a digit, backspace
\* or clear click leaves them enabled and the entry free of an error text;
\* in particular 5 / 0 = 7 ends with the entry "7" and the buttons enabled.
C3_ErrorCleared ==
    /\ (pre.disabled /\ last \in Digits \cup {"back", "clear"})
          => (~disabled /\ lineEdit \notin ErrorTexts)
    /\ (Played("recover") /\ script.a = 5 /\ script.c = 7)
          => (lineEdit = <<"7">> /\ ~disabled)

\* C4: every handler runs to completion: no exception escapes a click.
C4_NoUncaughtException == exc = "none"

\* C5: the digits of a, op, the digits of b and "=" from the initial state,
\* with no division fault, end with the entry showing a op b, the label
\* "a op b =" and the result flag set.
C5_BinaryResult ==
    (Played("binary") /\ ~Faults(script.op, script.b)) =>
        /\ lineEdit = Formatted(PyInt(FALSE, script.a), script.op,
                                PyInt(FALSE, script.b))
        /\ label = NatStr(script.a) \o <<" ", script.op, " ">>
                      \o NatStr(script.b) \o <<" ", "=">>
        /\ is_result_shown

\* C6: an operator click on a pending, not finalized expression changes only
\* the operator symbol of the label (left operand and entry stay), and the
\* following "=" uses the new operator: 5 + - 3 = gives 2, whether the
\* second operator comes before or after the digits of the right operand.
C6_OperatorReplaced ==
    /\ (last \in Signs /\ ~pre.disabled /\ Pending(pre)) =>
          /\ label = DropLast(pre.label, 1) \o <<last>>
          /\ lineEdit = pre.lineEdit
          /\ get_temp(Cur) = get_temp(pre)
    /\ ((Played("swap") \/ Played("swaplate")) /\ ~Faults(script.op2, script.b))
          => lineEdit = Formatted(PyInt(FALSE, script.a), script.op2,
                                  PyInt(FALSE, script.b))

\* C7: an operator click after a result r starts the pending expression
\* "r op" and resets the entry, so that the digits of c and "=" then give
\* r op c.
C7_ChainFromResult ==
    /\ (last \in Signs /\ ~pre.disabled /\ Finalized(pre) /\ pre.is_result_shown)
          => /\ label = pre.lineEdit \o <<" ", last>>
             /\ lineEdit = <<"0">>
    /\ (Played("chain") /\ ~Faults(script.op, script.b)
                        /\ ~Faults(script.op2, script.c))
          => lineEdit =
                Formatted(number(Formatted(PyInt(FALSE, script.a), script.op,
                                           PyInt(FALSE, script.b))).v,
                          script.op2, PyInt(FALSE, script.c))

C9_NoTrailingPointZero ==
    Calculated =>
        /\ is_result_shown
        /\ ~endswith(lineEdit, <<".", "0">>)
        /\ LET r == operations(get_mathsign(pre), get_temp(pre).v,
                               get_entry(pre).v)
           IN  r.num % r.den = 0 => ~Contains(lineEdit, ".")

C9_Witness == Calculated /\ is_result_shown /\ lineEdit = <<"0">>

\* C10: a clear click gives the initial state: entry "0", empty label,
\* result flag off, operator buttons enabled.
C10_ClearAllResets ==
    last = "clear" =>
        /\ lineEdit = <<"0">>
        /\ label = <<>>
        /\ ~is_result_shown
        /\ ~disabled
        /\ Cur = InitUi

C10_Witness == last = "clear" /\ pre.disabled /\ pre.label # <<>> /\ Cur = InitUi

\* an optional "-", then digits with at most one "." among them and at
\* least one digit
Numeric(t) ==
    LET body == IF startswith(t, "-") THEN Tail(t) ELSE t
    IN  /\ \A i \in 1..Len(body) : IsDigit(body[i]) \/ body[i] = "."
        /\ \E i \in 1..Len(body) : IsDigit(body[i])
        /\ Cardinality({i \in 1..Len(body) : body[i] = "."}) <= 1

\* the words of a text joined by single blanks
RECURSIVE Joined(_)
Joined(words) ==
    IF words = <<>> THEN <<>>
    ELSE IF Len(words) = 1 THEN words[1]
    ELSE words[1] \o <<" ">> \o Joined(Tail(words))

\* C11: "=" with an empty or a finalized label is a silent no-op: entry,
\* label, result flag and buttons stay as they were (so a second "=" right
\* after a first changes nothing).
C11_CalculateNoOp ==
    (last = "=" /\ ~pre.disabled /\ (pre.label = <<>> \/ Finalized(pre))) =>
        /\ lineEdit = pre.lineEdit
        /\ label = pre.label
        /\ is_result_shown = pre.is_result_shown
        /\ disabled = pre.disabled
        /\ exc = "none"

C11_Witness ==
    /\ last = "="
    /\ Finalized(pre)
    /\ pre.is_result_shown
    /\ label = pre.label
    /\ lineEdit = pre.lineEdit

C17_ErrorExcludesPending == lineEdit \in ErrorTexts => ~Pending(Cur)

\* C17 as amended: while the entry shows an error text the label still
\* holds the pending "<left> /" expression whose evaluation faulted.
C17_ErrorKeepsPending ==
    lineEdit \in ErrorTexts =>
        /\ Pending(Cur)
        /\ get_mathsign(Cur) = <<"/">>
        /\ disabled

C17_Witness ==
    /\ lineEdit = ERROR_UNDEFINED
    /\ label = <<"0", " ", "/">>
    /\ last = "="

\* C18: the operator buttons are disabled exactly when the entry is one of
\* the two error texts, and they become disabled only by "=" on a pending
\* "/" with a zero right operand.
C18_DisabledIffError ==
    /\ disabled <=> lineEdit \in ErrorTexts
    /\ (disabled /\ ~pre.disabled) => DivisionFault

C18_Witness ==
    /\ disabled
    /\ ~pre.disabled
    /\ lineEdit \in ErrorTexts
    /\ get_mathsign(pre) = <<"/">>

\* C19: the label is empty, "<left> <op>" or "<left> <op> <right> =" with
\* <op> one of + - * / and <left> a number; so get_mathsign gives one of the
\* four signs or "=" and get_temp parses whenever the label is not empty.
C19_LabelShape ==
    LET words == split(label)
    IN  label # <<>> =>
          /\ label = Joined(words)
          /\ Len(words) \in {2, 4}
          /\ words[2] \in OperationKeys
          /\ number(words[1]).ok /\ Numeric(words[1])
          /\ Len(words) = 4 => words[4] = <<"=">>
          /\ get_mathsign(Cur) \in OperationKeys \cup {<<"=">>}
          /\ Len(words) = 2 <=> get_mathsign(Cur) \in OperationKeys
          /\ get_temp(Cur).ok

C19_Witness ==
    /\ Len(split(label)) = 4
    /\ get_mathsign(Cur) = <<"=">>
    /\ pre.label # <<>>
    /\ Len(split(pre.label)) = 2

(* ------------------------ currency client: runs ----------------------- *)

Info(id, name, symbol) ==
    JDict(<< <<<<"id">>, JStr(<<id>>)>>,
             <<<<"currencyName">>, JStr(<<name>>)>>,
             <<<<"currencySymbol">>, JStr(<<symbol>>)>> >>)

Results(pairs) == JDict(<< <<<<"results">>, pairs>> >>)

Rate(value) == JDict(<< <<<<"USD", "_", "EUR">>, value>> >>)

\* the bodies a reply may carry: the documented ones and JSON of other
\* shapes
Bodies ==
    { Results(JDict(<< <<<<"USD">>, Info("USD", "United States Dollar", "$")>>,
                       <<<<"EUR">>, Info("EUR", "Euro", "E")>> >>)),
      Results(JDict(<< <<<<"EUR">>, JDict(<< <<<<"id">>, JStr(<<"EUR">>)>> >>)>> >>)),
      Results(JDict(<<>>)),
      Results(JList(<<>>)),
      Results(JDict(<< <<<<"USD">>, JStr(<<"x">>)>> >>)),
      JDict(<<>>),
      JList(<<>>),
      JList(<<JNum(1)>>),
      JNull,
      Rate(JNum(2)),
      Rate(JStr(<<"0", ".", "5">>)),
      Rate(JStr(<<"a", "b", "c">>)),
      Rate(JList(<<>>)),
      Rate(JNull) }

Replies ==
    {Reply("ok", body) : body \in Bodies}
    \cup {Reply(status, JNull) :
            status \in {"network", "json_requestexc", "json_valueerror"}}

Targets == {"EUR", "XXX"}

Amounts == {<<"1", "0", "0">>, <<"a", "b", "c">>}

\* one command entered at the prompt and handled
Enter_command(c) ==
    /\ client.commands < MaxCommands
    /\ client' = main_command(client, api_key, c)
    /\ client_pre' = client
    /\ command' = c
    /\ UNCHANGED <<api_key, lineEdit, label, is_result_shown, disabled, exc,
                   pre, last, script, pc, gamevars>>

\* main is at its input() prompt
AtPrompt == client.pc = "prompt"

Quit ==
    /\ AtPrompt
    /\ Enter_command(Command("q", "", "", <<>>, Reply("none", JNull)))

List ==
    /\ AtPrompt
    /\ \E resp \in Replies : Enter_command(Command("list", "", "", <<>>, resp))

RateCommand ==
    /\ AtPrompt
    /\ \E cur2 \in Targets, resp \in Replies :
          Enter_command(Command("rate", "USD", cur2, <<>>, resp))

ConvertCommand ==
    /\ AtPrompt
    /\ \E cur2 \in Targets, amount \in Amounts, resp \in Replies :
          Enter_command(Command("convert", "USD", cur2, amount, resp))

Unrecognized ==
    /\ AtPrompt
    /\ Enter_command(Command("help", "", "", <<>>, Reply("none", JNull)))

InitClient ==
    /\ lineEdit = InitUi.lineEdit
    /\ label = InitUi.label
    /\ is_result_shown = InitUi.is_result_shown
    /\ disabled = InitUi.disabled
    /\ exc = InitUi.exc
    /\ pre = InitUi
    /\ last = "none"
    /\ script = NoScript
    /\ pc = 1
    /\ api_key \in BOOLEAN
    /\ client = ClientStart
    /\ client_pre = ClientStart
    /\ command = NoCommand
    /\ game = GameStart
    /\ game_pre = GameStart
    /\ typed = NotTyped

NextClient ==
    \/ Quit
    \/ List
    \/ RateCommand
    \/ ConvertCommand
    \/ Unrecognized

SpecClient == InitClient /\ [][NextClient]_vars

\* the last command was one that calls the API
Requesting == command.cmd \in {"list", "rate", "convert"}

\* C12: without an API key no HTTP request is ever issued, and the first
\* list, rate or convert command prints the configuration error and ends
\* the command loop.
C12_NoKeyNoRequest ==
    ~api_key =>
        /\ client.requests = 0
        /\ Requesting =>
              /\ client.pc = "done"
              /\ client.out = <<CONFIG_ERROR>>
              /\ client.exc = "none"
        /\ client.pc = "done" => (Requesting \/ command.cmd = "q")

C12_Witness ==
    /\ ~api_key
    /\ command.cmd = "list"
    /\ client_pre.commands > 0
    /\ client.pc = "done"
    /\ client.out = <<CONFIG_ERROR>>

\* C13: with an API key set, whatever each request's outcome, the loop is
\* back at its prompt after every command and ends only on "q".
C13_LoopSurvives ==
    api_key =>
        \/ client.pc = "prompt"
        \/ client.pc = "done" /\ command.cmd = "q"

\* C20: once a list command has fetched the list, the cache never changes:
\* every later list command issues no request and prints that same list;
\* a list command whose request fails leaves the cache empty, and a list
\* command on an empty cache issues a request.
C20_ListFetchedOnce ==
    /\ client_pre.currencies_cache.set =>
          client.currencies_cache = client_pre.currencies_cache
    /\ (command.cmd = "list" /\ client_pre.currencies_cache.set) =>
          /\ client.requests = client_pre.requests
          /\ client.pc = "prompt" =>
                client.out = print_currencies(client_pre.currencies_cache.items).out
    /\ (api_key /\ command.cmd = "list" /\ ~client_pre.currencies_cache.set) =>
          /\ client.requests = client_pre.requests + 1
          /\ command.resp.status # "ok" =>
                (~client.currencies_cache.set /\ client.pc = "prompt")

C20_Witness ==
    /\ command.cmd = "list"
    /\ client_pre.currencies_cache.set
    /\ Len(client_pre.currencies_cache.items) = 2
    /\ client.requests = 1
    /\ client.commands = 3
    /\ Len(client.out) = 2

(* ---------------------- Rock-Paper-Scissors: games -------------------- *)

\* the lines typed: moves, quits and others, with blanks and capitals
Inputs ==
    { rock,
      <<" ","P","a","p","e","r"," ">>,
      <<"S","C","I","S","S","O","R","S">>,
      <<"q">>,
      <<" ","Q">>,
      <<>>,
      <<"r"," ","o","c","k">> }

\* random.choice(OPTIONS)
get_computer_choice == {OPTIONS[i] : i \in 1..Len(OPTIONS)}

\* main is at input() in get_user_choice
AtInput == game.pc = "prompt"

Type(raw, computer_choice) ==
    /\ game' = main_input(game, raw, computer_choice)
    /\ game_pre' = game
    /\ typed' = raw
    /\ UNCHANGED <<lineEdit, label, is_result_shown, disabled, exc, pre, last,
                   script, pc, clientvars>>

TypeQuit ==
    /\ AtInput
    /\ \E raw \in Inputs :
          /\ get_user_choice(game.frames, raw).kind = "quit"
          /\ Type(raw, rock)

TypeInvalid ==
    /\ AtInput
    /\ \E raw \in Inputs :
          /\ get_user_choice(game.frames, raw).kind \in {"again", "RecursionError"}
          /\ Type(raw, rock)

TypeMove ==
    /\ AtInput
    /\ game.decided < MaxRounds
    /\ \E raw \in Inputs, computer_choice \in get_computer_choice :
          /\ get_user_choice(game.frames, raw).kind = "move"
          /\ Type(raw, computer_choice)

InitGame ==
    /\ lineEdit = InitUi.lineEdit
    /\ label = InitUi.label
    /\ is_result_shown = InitUi.is_result_shown
    /\ disabled = InitUi.disabled
    /\ exc = InitUi.exc
    /\ pre = InitUi
    /\ last = "none"
    /\ script = NoScript
    /\ pc = 1
    /\ api_key = FALSE
    /\ client = ClientStart
    /\ client_pre = ClientStart
    /\ command = NoCommand
    /\ game = GameStart
    /\ game_pre = GameStart
    /\ typed = NotTyped

NextGame ==
    \/ TypeQuit
    \/ TypeInvalid
    \/ TypeMove

SpecGame == InitGame /\ [][NextGame]_vars

\* the last line typed was a move and a round was played on it
Played_round == typed # NotTyped /\ game.decided = game_pre.decided + 1

\* the last line typed, as get_user_choice compares it
Entered == lower(strip(typed))

\* C14: for every pair of moves, determine_winner returns 0 exactly when
\* the two are equal, 1 exactly when the pair is rock>scissors, paper>rock
\* or scissors>paper, and -1 otherwise; hence determine_winner(a, b) =
\* -determine_winner(b, a).  Stated of the round just played and of every
\* pair of OPTIONS.
C14_DetermineWinner ==
    /\ Played_round =>
          LET u == game.user_choice
              c == game.computer_choice
              beats == \/ (u = rock /\ c = scissors)
                       \/ (u = paper /\ c = rock)
                       \/ (u = scissors /\ c = paper)
          IN  /\ InOptions(u) /\ InOptions(c)
              /\ game.result \in {-1, 0, 1}
              /\ game.result = 0 <=> u = c
              /\ game.result = 1 <=> beats
              /\ game.result = -1 <=> (u # c /\ ~beats)
              /\ game.result = 0 - determine_winner(c, u)
              /\ game.user_score = game_pre.user_score
                     + (IF beats THEN 1 ELSE 0)
              /\ game.computer_score = game_pre.computer_score
                     + (IF u # c /\ ~beats THEN 1 ELSE 0)
    /\ \A a \in get_computer_choice, b \in get_computer_choice :
          determine_winner(a, b) = 0 - determine_winner(b, a)

C14_Witness ==
    /\ Played_round
    /\ game.user_choice = paper
    /\ game.computer_choice = rock
    /\ game.result = 1
    /\ game.user_score = game_pre.user_score + 1
    /\ game.decided = MaxRounds

\* C15: get_user_choice returns only a move of OPTIONS or the quit marker;
\* an invalid line is re-prompted and never reaches determine_winner, never
\* triggers a computer move and never changes a score; the game loop ends
\* exactly when the user enters Q.
C15_InvalidReprompted ==
    /\ game.decided > 0 => InOptions(game.user_choice)
    /\ (typed # NotTyped /\ Entered # <<"q">> /\ ~InOptions(Entered)) =>
          /\ game.pc = "prompt"
          /\ game.decided = game_pre.decided
          /\ game.computer_moves = game_pre.computer_moves
          /\ game.user_score = game_pre.user_score
          /\ game.computer_score = game_pre.computer_score
    /\ game.pc # "prompt" <=> (typed # NotTyped /\ Entered = <<"q">>)

\* what of C15 holds whatever is typed: only moves are played, an invalid
\* line plays no round and changes no score, and Q ends the loop
C15_InvalidPlaysNoRound ==
    /\ game.decided > 0 => InOptions(game.user_choice)
    /\ (typed # NotTyped /\ Entered # <<"q">> /\ ~InOptions(Entered)) =>
          /\ game.decided = game_pre.decided
          /\ game.computer_moves = game_pre.computer_moves
          /\ game.user_score = game_pre.user_score
          /\ game.computer_score = game_pre.computer_score
    /\ (typed # NotTyped /\ Entered = <<"q">>) => game.pc = "done"
    /\ game.pc = "crashed" => game.exc = "RecursionError"

====
